---- MODULE Spec2Model ----
(***************************************************************************)
(* Model of the MomentumFinder front end: the Screener component           *)
(* (frontend/src/components/Screener.jsx) with its fetch life cycle, its   *)
(* filter criteria, its sort configuration and the two memoised values     *)
(* `sectors` and `filteredStocks`; the Signals page (frontend/src/App.jsx); *)
(* the requests of StockDetail; and the Gems page                          *)
(* (frontend/src/components/Gems.jsx).                                     *)
(*                                                                         *)
(* JavaScript values are tagged records: Null (null / undefined),          *)
(* Num(n) and Str(s), a string being the sequence of its characters.       *)
(*                                                                         *)
(* Specifications:                                                         *)
(*   Spec        the Screener from construction, every handler, a server   *)
(*               answering with short arrays of the scenario's records;    *)
(*   SpecFetch   the fetch life cycle alone, any array of Collections;     *)
(*   SpecView    one awaited fetch under every combination of criteria,    *)
(*               answered with any array of Collections;                   *)
(*   SpecReplace the fetch life cycle alone, short arrays of StockPool;    *)
(*   SpecMalformed  one awaited fetch and the search box, over records     *)
(*               whose symbol or name is a number;                         *)
(*   SpecSignals the Signals page;                                         *)
(*   SpecDetail  StockDetail under changes of its route parameter;         *)
(*   SpecSettling  SpecReplace with the mount effect and the settling of  *)
(*               a request weakly fair;                                    *)
(*   SpecGems    the Gems page;                                            *)
(*   SpecForecast  the Forecast page (unnamed/part_001);                   *)
(*   SpecMarket  the market badge of the header, App constructed at any    *)
(*               date of Dates.                                            *)
(***************************************************************************)
EXTENDS Integers, Sequences, FiniteSets, TLC

\* Longest stocks array a response of the screener endpoint carries.
MaxLen == 3

\* Longest stocks array the server of the full life cycle answers with.
MaxFetched == 2

\* Longest signals array a response of the signals endpoint carries.
MaxSignals == 2

(***************************************************************************)
(* JavaScript values                                                       *)
(***************************************************************************)
Null == [t |-> "null"]
NaN == [t |-> "nan"]
Num(n) == [t |-> "num", v |-> n]
Str(s) == [t |-> "str", v |-> s]

IsNullish(x) == x.t = "null"
IsStr(x) == x.t = "str"
IsNum(x) == x.t = "num"

\* The empty string ''.
Empty == Str(<< >>)

\* UTF-16 code unit of each character the model's strings are made of.
CodeUnit ==
    [c \in {"7", "A", "B", "C", "I", "P", "T", "a", "b", "c", "h", "x"} |->
        CASE c = "7" -> 55
          [] c = "A" -> 65
          [] c = "B" -> 66
          [] c = "C" -> 67
          [] c = "I" -> 73
          [] c = "P" -> 80
          [] c = "T" -> 84
          [] c = "a" -> 97
          [] c = "b" -> 98
          [] c = "c" -> 99
          [] c = "h" -> 104
          [] c = "x" -> 120]

Chars == DOMAIN CodeUnit
Digits == {"7"}
DigitValue == [c \in Digits |-> CodeUnit[c] - 48]

\* String.prototype.toLowerCase on one character: A-Z map to a-z.
LowerChar(c) ==
    IF CodeUnit[c] >= 65 /\ CodeUnit[c] <= 90
    THEN CHOOSE d \in Chars : CodeUnit[d] = CodeUnit[c] + 32
    ELSE c

\* String.prototype.toLowerCase
toLowerCase(s) == Str([i \in 1..Len(s.v) |-> LowerChar(s.v[i])])

\* String.prototype.includes: term occurs in s as a contiguous substring.
includes(s, term) ==
    \E i \in 0..(Len(s.v) - Len(term.v)) :
        SubSeq(s.v, i + 1, i + Len(term.v)) = term.v

\* Truthiness (ToBoolean) of a value: null, undefined, '', 0 and NaN are falsy.
Truthy(x) ==
    CASE x.t = "null" -> FALSE
      [] x.t = "nan" -> FALSE
      [] x.t = "str" -> x.v # << >>
      [] x.t = "num" -> x.v # 0

\* Strict equality ===: same type and same value; NaN equals nothing.
StrictEquals(x, y) == x.t # "nan" /\ x = y

RECURSIVE DigitsValue(_)
DigitsValue(s) ==
    IF s = << >> THEN 0
    ELSE 10 * DigitsValue(SubSeq(s, 1, Len(s) - 1)) + DigitValue[s[Len(s)]]

\* ToNumber: '' is 0, a string of digits its value, any other string NaN.
ToNumber(x) ==
    CASE x.t = "num" -> x
      [] x.t = "nan" -> x
      [] x.t = "null" -> Num(0)
      [] x.t = "str" ->
            IF \A i \in 1..Len(x.v) : x.v[i] \in Digits
            THEN Num(DigitsValue(x.v))
            ELSE NaN

\* Code-unit lexicographic order of two character sequences.
RECURSIVE SeqLess(_, _)
SeqLess(s, u) ==
    IF u = << >> THEN FALSE
    ELSE IF s = << >> THEN TRUE
    ELSE IF CodeUnit[s[1]] # CodeUnit[u[1]] THEN CodeUnit[s[1]] < CodeUnit[u[1]]
    ELSE SeqLess(Tail(s), Tail(u))

\* The relational operator x < y: two strings compare by code units, anything
\* else numerically, and a comparison with NaN is false.
JsLess(x, y) ==
    IF IsStr(x) /\ IsStr(y) THEN SeqLess(x.v, y.v)
    ELSE LET nx == ToNumber(x)
             ny == ToNumber(y)
         IN  nx.t = "num" /\ ny.t = "num" /\ nx.v < ny.v

\* x > y
JsGreater(x, y) == JsLess(y, x)

\* The nullish coalescing operator: x ?? d.
Coalesce(x, d) == IF IsNullish(x) THEN d ELSE x

\* A string the code only tests for equality, kept whole.
Lit(text) == Str(<< text >>)

(***************************************************************************)
(* Instrument records and the responses of GET /screener                   *)
(***************************************************************************)
SortKeys == {"close", "momentum_score", "roc_5", "rsi"}
Directions == {"asc", "desc"}

\* The values of the <option>s of the signal <select>, after "All Signals".
SignalTypes ==
    {Lit("Strong Buy"), Lit("Buy"), Lit("Hold"), Lit("Sell"), Lit("Avoid")}

Stock(symbol, name, sector, signal, close, score, roc, rsi) ==
    [symbol |-> symbol, name |-> name, sector |-> sector, signal_type |-> signal,
     close |-> close, momentum_score |-> score, roc_5 |-> roc, rsi |-> rsi]

IT == Str(<< "I", "T" >>)
Pharma == Str(<< "P", "h" >>)

\* The records of the scenario of the specification: scores 80, 40 and
\* missing; A and B tie on close.
StockA ==
    Stock(Str(<< "A" >>), Null, IT, Lit("Buy"), Num(10), Num(80), Num(2), Num(7))
StockB ==
    Stock(Str(<< "B" >>), Null, IT, Lit("Hold"), Num(10), Num(40), Num(-3), Null)
StockC ==
    Stock(Str(<< "C" >>), Null, Pharma, Lit("Buy"),
          Num(5), Null, Null, Str(<< "x" >>))

\* A record with neither symbol nor name nor sector, and a record whose
\* name matches where its symbol does not, with an empty sector; both with
\* malformed (string) sort keys.
StockD ==
    Stock(Null, Null, Null, Null, Null, Num(40), Num(0), Str(<< "7" >>))
StockE ==
    Stock(Str(<< "a", "C" >>), Str(<< "A", "b" >>), Empty, Lit("Sell"),
          Num(-3), Num(0), Num(2), Empty)

\* The records the arrays given to the derivation are made of.
StockPool == { StockA, StockB, StockC, StockD, StockE }

\* The records the responses of the modelled server are made of.
ResponsePool == { StockA, StockB, StockC }

\* Arrays of at most longest records of pool with no record twice (symbol is
\* the key of a record within one snapshot).
ArraysOf(pool, longest) ==
    UNION { { c \in [1..n -> pool] :
                \A i, j \in 1..n : i # j => c[i] # c[j] } : n \in 0..longest }

Collections == ArraysOf(StockPool, MaxLen)

\* The body of a response: with a stocks array, or without the field.
Responses ==
    { [hasStocks |-> TRUE, stocks |-> c] : c \in ArraysOf(ResponsePool, MaxFetched) }
        \cup { [hasStocks |-> FALSE, stocks |-> << >>] }

\* The search criteria the derivation is given.
SearchTerms == { Empty, Str(<< "b" >>), Str(<< "B" >>) }

\* What the user of the full life cycle types into the search box.
TypedTerms == { Empty, Str(<< "b" >>) }

\* The engines whose Array.prototype.sort is modelled.
Engines == {"v8", "spidermonkey"}

(***************************************************************************)
(* The sort comparator of filteredStocks                                   *)
(***************************************************************************)
\* The comparator without "?? 0": a missing key is undefined, which
\* compares as NaN.
compareWithoutDefault(a, b, cfg) ==
    LET aVal == Coalesce(a[cfg.key], NaN)
        bVal == Coalesce(b[cfg.key], NaN)
    IN  IF cfg.direction = "asc"
        THEN (IF JsGreater(aVal, bVal) THEN 1 ELSE -1)
        ELSE (IF JsLess(aVal, bVal) THEN 1 ELSE -1)

\* A consistent comparator: 0 for equal keys.
compareThreeWay(a, b, cfg) ==
    LET aVal == Coalesce(a[cfg.key], Num(0))
        bVal == Coalesce(b[cfg.key], Num(0))
    IN  IF ~JsGreater(aVal, bVal) /\ ~JsLess(aVal, bVal) THEN 0
        ELSE IF cfg.direction = "asc"
        THEN (IF JsGreater(aVal, bVal) THEN 1 ELSE -1)
        ELSE (IF JsLess(aVal, bVal) THEN 1 ELSE -1)

compare(a, b, cfg) ==
    LET aVal == Coalesce(a[cfg.key], Num(0))
        bVal == Coalesce(b[cfg.key], Num(0))
    IN  IF cfg.direction = "asc"
        THEN (IF JsGreater(aVal, bVal) THEN 1 ELSE -1)
        ELSE (IF JsLess(aVal, bVal) THEN 1 ELSE -1)

(***************************************************************************)
(* Array.prototype.sort(comparefn).  The comparator never returns 0, so it *)
(* is not a consistent comparator and the order of the result is           *)
(* implementation-defined: each engine's algorithm is modelled as it runs  *)
(* on arrays this short.                                                   *)
(***************************************************************************)
Reverse(s) == [i \in 1..Len(s) |-> s[Len(s) + 1 - i]]

\* V8 (TimSort), CountAndMakeRun: the length of the run that starts the
\* array; idx is the next element examined.
RECURSIVE RunLength(_, _, _, _)
RunLength(a, cfg, isDescending, idx) ==
    IF idx > Len(a) THEN Len(a)
    ELSE LET order == compare(a[idx], a[idx - 1], cfg)
         IN  IF (isDescending /\ order >= 0) \/ (~isDescending /\ order < 0)
             THEN idx - 1
             ELSE RunLength(a, cfg, isDescending, idx + 1)

\* V8, CountAndMakeRun: a strictly descending run is reversed in place.
CountAndMakeRun(a, cfg) ==
    LET isDescending == compare(a[2], a[1], cfg) < 0
        run == RunLength(a, cfg, isDescending, 3)
    IN  [run |-> run,
         arr |-> IF isDescending
                 THEN Reverse(SubSeq(a, 1, run)) \o SubSeq(a, run + 1, Len(a))
                 ELSE a]

\* V8, BinaryInsertionSort: the place (0-based) of pivot in a[left..right).
RECURSIVE BinarySearch(_, _, _, _, _)
BinarySearch(a, pivot, cfg, left, right) ==
    IF left >= right THEN left
    ELSE LET mid == left + ((right - left) \div 2)
             order == compare(pivot, a[mid + 1], cfg)
         IN  IF order < 0
             THEN BinarySearch(a, pivot, cfg, left, mid)
             ELSE BinarySearch(a, pivot, cfg, mid + 1, right)

\* V8, BinaryInsertionSort: a[0..start) is sorted; insert the rest.
RECURSIVE BinaryInsertionSort(_, _, _)
BinaryInsertionSort(a, cfg, start) ==
    IF start >= Len(a) THEN a
    ELSE LET pivot == a[start + 1]
             left == BinarySearch(a, pivot, cfg, 0, start)
             moved == SubSeq(a, 1, left) \o << pivot >>
                        \o SubSeq(a, left + 1, start)
                        \o SubSeq(a, start + 2, Len(a))
         IN  BinaryInsertionSort(moved, cfg, start + 1)

\* V8: arrays shorter than 64 are one run extended by binary insertion.
ArrayTimSort(a, cfg) ==
    IF Len(a) < 2 THEN a
    ELSE LET r == CountAndMakeRun(a, cfg)
         IN  IF r.run < Len(a) THEN BinaryInsertionSort(r.arr, cfg, r.run)
             ELSE r.arr

\* SpiderMonkey, InsertionSort: the index after which item is placed,
\* scanning down from j while the element there compares greater.
RECURSIVE InsertionPlace(_, _, _, _)
InsertionPlace(a, cfg, item, j) ==
    IF j < 1 THEN 0
    ELSE IF compare(a[j], item, cfg) <= 0 THEN j
    ELSE InsertionPlace(a, cfg, item, j - 1)

\* SpiderMonkey: arrays shorter than 24 are sorted by insertion.
RECURSIVE InsertionSort(_, _, _)
InsertionSort(a, cfg, i) ==
    IF i > Len(a) THEN a
    ELSE LET item == a[i]
             j == InsertionPlace(a, cfg, item, i - 1)
             moved == SubSeq(a, 1, j) \o << item >> \o SubSeq(a, j + 1, i - 1)
                        \o SubSeq(a, i + 1, Len(a))
         IN  InsertionSort(moved, cfg, i + 1)

\* result.sort((a, b) => ...)
sort(a, cfg, eng) ==
    IF eng = "v8" THEN ArrayTimSort(a, cfg) ELSE InsertionSort(a, cfg, 2)

(***************************************************************************)
(* The derived values of the Screener                                      *)
(***************************************************************************)
RECURSIVE Dedup(_)
\* [...new Set(a)]: each value once, in the order of its first occurrence.
Dedup(a) ==
    IF a = << >> THEN << >>
    ELSE LET init == Dedup(SubSeq(a, 1, Len(a) - 1))
             last == a[Len(a)]
         IN  IF \E i \in 1..Len(init) : StrictEquals(init[i], last)
             THEN init
             ELSE Append(init, last)

\* Array.prototype.sort() without a comparator, on strings: ascending by
\* code units.  This order is total on distinct strings, so every engine
\* returns the same array; it is built by insertion.
RECURSIVE DefaultSort(_)
DefaultSort(a) ==
    IF a = << >> THEN << >>
    ELSE LET init == DefaultSort(SubSeq(a, 1, Len(a) - 1))
             last == a[Len(a)]
             k == Cardinality({ i \in 1..Len(init) : ~SeqLess(last.v, init[i].v) })
         IN  SubSeq(init, 1, k) \o << last >> \o SubSeq(init, k + 1, Len(init))

\* The sectors without the Set: a sector is listed once per record.
SectorsWithoutSet(stks) ==
    LET mapped == [i \in 1..Len(stks) |-> stks[i].sector]
        kept == SelectSeq(mapped, Truthy)
    IN  DefaultSort(kept)

\* const sectors = useMemo(..., [stocks])
Sectors(stks) ==
    LET mapped == [i \in 1..Len(stks) |-> stks[i].sector]
        kept == SelectSeq(mapped, Truthy)
    IN  DefaultSort(Dedup(kept))

\* s.field?.toLowerCase().includes(term): undefined (falsy) on a missing field.
FieldIncludes(field, term) ==
    IF IsNullish(field) THEN FALSE ELSE includes(toLowerCase(field), term)

\* The search predicate with the term used as typed.
SearchMatchTermAsTyped(s, searchTerm) ==
    FieldIncludes(s.symbol, searchTerm) \/ FieldIncludes(s.name, searchTerm)

\* The predicate of the search filter.
SearchMatch(s, searchTerm) ==
    LET term == toLowerCase(searchTerm)
    IN  FieldIncludes(s.symbol, term) \/ FieldIncludes(s.name, term)

\* x?.toLowerCase() on a value that is neither nullish nor a string: the
\* property is undefined and the call raises a TypeError.
LacksToLowerCase(x) == ~IsNullish(x) /\ ~IsStr(x)

\* The search predicate raises on record s: symbol is tested first, name only
\* when symbol did not match.
SearchThrowsOn(s, searchTerm) ==
    LET term == toLowerCase(searchTerm)
    IN  \/ LacksToLowerCase(s.symbol)
        \/ /\ ~FieldIncludes(s.symbol, term)
           /\ LacksToLowerCase(s.name)

\* The search filter raises: a term is active and the predicate raises on
\* some record.
SearchThrows(stks, searchTerm) ==
    /\ Truthy(searchTerm)
    /\ \E i \in 1..Len(stks) : SearchThrowsOn(stks[i], searchTerm)

\* The filters each applied to stocks instead of to the result so far.
ApplyFiltersUnchained(stks, search, sector, signal) ==
    LET bySearch(s) == SearchMatch(s, search)
        bySector(s) == StrictEquals(s.sector, sector)
        bySignal(s) == StrictEquals(s.signal_type, signal)
        r1 == IF Truthy(search) THEN SelectSeq(stks, bySearch) ELSE stks
        r2 == IF Truthy(sector) THEN SelectSeq(stks, bySector) ELSE r1
    IN  IF Truthy(signal) THEN SelectSeq(stks, bySignal) ELSE r2

\* The sector filter applied without its guard, an empty criterion included.
ApplyFiltersUnguarded(stks, search, sector, signal) ==
    LET bySearch(s) == SearchMatch(s, search)
        bySector(s) == StrictEquals(s.sector, sector)
        bySignal(s) == StrictEquals(s.signal_type, signal)
        r1 == IF Truthy(search) THEN SelectSeq(stks, bySearch) ELSE stks
        r2 == SelectSeq(r1, bySector)
    IN  IF Truthy(signal) THEN SelectSeq(r2, bySignal) ELSE r2

\* The three filters of filteredStocks, each applied only when its
\* criterion is truthy.
ApplyFilters(stks, search, sector, signal) ==
    LET bySearch(s) == SearchMatch(s, search)
        bySector(s) == StrictEquals(s.sector, sector)
        bySignal(s) == StrictEquals(s.signal_type, signal)
        r1 == IF Truthy(search) THEN SelectSeq(stks, bySearch) ELSE stks
        r2 == IF Truthy(sector) THEN SelectSeq(r1, bySector) ELSE r1
    IN  IF Truthy(signal) THEN SelectSeq(r2, bySignal) ELSE r2

\* const filteredStocks = useMemo(..., [stocks, searchTerm, sectorFilter,
\* signalFilter, sortConfig])
FilteredStocks(stks, search, sector, signal, cfg, eng) ==
    sort(ApplyFilters(stks, search, sector, signal), cfg, eng)

(***************************************************************************)
(* The Screener component                                                  *)
(***************************************************************************)
VARIABLES
    engine,          \* the engine the page runs on
    mounted,         \* whether the mount effect has run
    pending,         \* the number of getScreener requests not yet settled
    stocks, loading, error,
    searchTerm, sectorFilter, signalFilter, sortConfig,
    sectors, filteredStocks,
    crashed          \* whether a render threw and React removed the tree

\* The Signals page (its own data, loading and filter).
VARIABLES
    signalsMounted,  \* whether the mount effect of Signals has run
    signalsPending,  \* the number of getSignals requests not yet settled
    signalsData, signalsLoading, filter

\* The StockDetail page.
VARIABLES
    detailMounted,   \* whether StockDetail is on screen
    detailSymbol,    \* the symbol route parameter
    detailRequests,  \* the symbols of the getStockDetail requests not yet
                     \* settled, in the order they were sent
    detailData, detailLoading, detailError

\* The Gems page.
VARIABLES
    gemsMounted,     \* whether the first effect of Gems has run
    gemsPending,     \* the number of /api/gems requests not yet settled
    gems, gemsSummary, gemsLoading, gemsError,
    riskFilter, gemsSectorFilter, gemsSectors

\* The Forecast page.
VARIABLES
    forecastMounted,   \* whether the first effect of Forecast has run
    forecastSymbol,    \* the symbol route parameter
    forecastDays,
    forecastRequests,  \* the (symbol, days) of the /api/forecast requests
                       \* not yet settled, in the order they were sent
    forecastData, forecastLoading, forecastError

\* The header of App.
VARIABLES
    currentTime,       \* the Date held by App
    marketBadge        \* isMarketOpen(currentTime) as the header shows it,
                       \* Null before the first render

screenerVars == << engine, mounted, pending, stocks, loading, error,
                   searchTerm, sectorFilter, signalFilter, sortConfig,
                   sectors, filteredStocks, crashed >>

signalsVars == << signalsMounted, signalsPending, signalsData, signalsLoading,
                  filter >>

detailVars == << detailMounted, detailSymbol, detailRequests, detailData,
                 detailLoading, detailError >>

gemsVars == << gemsMounted, gemsPending, gems, gemsSummary, gemsLoading,
               gemsError, riskFilter, gemsSectorFilter, gemsSectors >>

forecastVars == << forecastMounted, forecastSymbol, forecastDays,
                   forecastRequests, forecastData, forecastLoading,
                   forecastError >>

clockVars == << currentTime, marketBadge >>

vars == << screenerVars, signalsVars, detailVars, gemsVars, forecastVars,
           clockVars >>

\* What a handler of one page leaves alone: the state of the other pages.
outsideScreener == << signalsVars, detailVars, gemsVars, forecastVars, clockVars >>
outsideSignals == << screenerVars, detailVars, gemsVars, forecastVars, clockVars >>
outsideDetail == << screenerVars, signalsVars, gemsVars, forecastVars, clockVars >>
outsideGems == << screenerVars, signalsVars, detailVars, forecastVars, clockVars >>
outsideForecast == << screenerVars, signalsVars, detailVars, gemsVars, clockVars >>
outsideClock == << screenerVars, signalsVars, detailVars, gemsVars, forecastVars >>

\* Signals as constructed: no data, the skeleton shown, no filter.
SignalsInit ==
    /\ signalsMounted = FALSE
    /\ signalsPending = 0
    /\ signalsData = [loaded |-> FALSE, hasSignals |-> FALSE, signals |-> << >>,
                      date |-> Null, summary |-> Null, market_breadth |-> Null]
    /\ signalsLoading = TRUE
    /\ filter = Empty

\* StockDetail as constructed: no data, the skeleton shown, no error.
DetailInit ==
    /\ detailMounted = FALSE
    /\ detailSymbol = Null
    /\ detailRequests = << >>
    /\ detailData = Null
    /\ detailLoading = TRUE
    /\ detailError = Null

\* The summary state of Gems before a response: useState({}).
NoSummary == [hasTotal |-> FALSE, total |-> 0]

\* Gems as constructed: no gems, the spinner shown, no error, no filter.
GemsInit ==
    /\ gemsMounted = FALSE
    /\ gemsPending = 0
    /\ gems = << >>
    /\ gemsSummary = NoSummary
    /\ gemsLoading = TRUE
    /\ gemsError = Null
    /\ riskFilter = Empty
    /\ gemsSectorFilter = Empty
    /\ gemsSectors = << >>

\* useState(20)
InitialForecastDays == 20

\* Forecast as constructed: no data, the spinner shown, no error, 20 days.
ForecastInit ==
    /\ forecastMounted = FALSE
    /\ forecastSymbol = Null
    /\ forecastDays = InitialForecastDays
    /\ forecastRequests = << >>
    /\ forecastData = Null
    /\ forecastLoading = TRUE
    /\ forecastError = Null

\* A Date as isMarketOpen reads it: getDay(), getHours(), getMinutes().
Date(day, hours, minutes) == [day |-> day, hours |-> hours, minutes |-> minutes]

\* App as constructed at date: useState(new Date()), nothing rendered yet.
ClockInit(date) ==
    /\ currentTime = date
    /\ marketBadge = ""

ErrorMessage == Lit("Failed to load screener data")

\* The table rendered over a request in flight: the loading return left out.
TableShownWhileLoading == ~crashed /\ ~Truthy(error)

\* The table, the filters and Refresh are rendered: neither the skeleton
\* (loading) nor the error card is returned.
TableShown == ~crashed /\ ~loading /\ ~Truthy(error)

\* The error card with Retry is rendered.
ErrorShown == ~crashed /\ ~loading /\ Truthy(error)

\* The derivation with `let result = stocks`: with no filter active result
\* is the state array itself, and sort reorders it.
StocksSortedInPlace(stks, search, sector, signal, cfg, eng) ==
    IF ~Truthy(search) /\ ~Truthy(sector) /\ ~Truthy(signal)
    THEN sort(stks, cfg, eng)
    ELSE stks

\* The stocks array after the derivation ran on it: result is a copy
\* ([...stocks]), filter returns new arrays and sort reorders the copy.
StocksAfterRender(stks, search, sector, signal, cfg, eng) == stks

\* The derivation keeping its last view: while the passing records are the
\* same it sorts the previous view instead of the filtered stocks.
RenderFromPreviousView(stks) ==
    LET passing == ApplyFilters(stks, searchTerm', sectorFilter', signalFilter')
        same == { passing[i] : i \in 1..Len(passing) }
                    = { filteredStocks[i] : i \in 1..Len(filteredStocks) }
    IN  /\ crashed' = crashed
        /\ stocks' = stks
        /\ sectors' = Sectors(stks)
        /\ filteredStocks' = sort(IF same THEN filteredStocks ELSE passing,
                                  sortConfig', engine')

\* The render that follows a state change, stks being the stocks state it
\* runs on: the two memoised values as it computes them, or, when the search
\* filter raises, the tree removed (no error boundary is mounted).
Render(stks) ==
    IF SearchThrows(stks, searchTerm')
    THEN /\ crashed' = TRUE
         /\ stocks' = stks
         /\ UNCHANGED << sectors, filteredStocks >>
    ELSE /\ crashed' = crashed
         /\ stocks' = StocksAfterRender(stks, searchTerm', sectorFilter',
                                        signalFilter', sortConfig', engine')
         /\ sectors' = Sectors(stks)
         /\ filteredStocks' = FilteredStocks(stks, searchTerm', sectorFilter',
                                             signalFilter', sortConfig', engine')

\* The Screener as constructed.
ScreenerInit ==
    /\ engine \in Engines
    /\ mounted = FALSE
    /\ pending = 0
    /\ stocks = << >>
    /\ loading = TRUE
    /\ error = Null
    /\ searchTerm = Empty
    /\ sectorFilter = Empty
    /\ signalFilter = Empty
    /\ sortConfig = [key |-> "momentum_score", direction |-> "desc"]
    /\ sectors = << >>
    /\ filteredStocks = << >>
    /\ crashed = FALSE

Init ==
    /\ ScreenerInit
    /\ SignalsInit
    /\ DetailInit
    /\ GemsInit
    /\ ForecastInit
    \* No page reads the clock: App constructed on a Monday at midnight.
    /\ ClockInit(Date(1, 0, 0))

\* fetchData up to its await: setLoading(true) and the request is sent.
fetchData ==
    /\ loading' = TRUE
    /\ pending' = pending + 1
    /\ UNCHANGED << engine, error, searchTerm, sectorFilter,
                    signalFilter, sortConfig >>
    /\ UNCHANGED outsideScreener
    /\ Render(stocks)

\* useEffect(() => { fetchData() }, [])
Mount ==
    /\ ~mounted
    /\ mounted' = TRUE
    /\ fetchData

\* The Refresh button of the header.
Refresh ==
    /\ mounted /\ TableShown
    /\ UNCHANGED mounted
    /\ fetchData

\* The Retry button of the error card.
Retry ==
    /\ mounted /\ ErrorShown
    /\ UNCHANGED mounted
    /\ fetchData

\* The response merged into the collection held: the records of the
\* response that stocks lacks are appended.
StocksMerged(data) ==
    LET isNew(s) == \A i \in 1..Len(stocks) : stocks[i] # s
    IN  stocks \o SelectSeq(data.stocks, isNew)

\* data.stocks || []
StocksOf(data) == IF data.hasStocks THEN data.stocks ELSE << >>

\* fetchData after its await, the request fulfilled with data.
FetchResolved(data) ==
    /\ pending > 0
    /\ pending' = pending - 1
    /\ loading' = FALSE
    /\ UNCHANGED << engine, mounted, error, searchTerm, sectorFilter,
                    signalFilter, sortConfig >>
    /\ UNCHANGED outsideScreener
    /\ Render(StocksOf(data))

\* The catch block calling fetchData again: a rejected request is followed
\* by another one.
FetchRejectedRetrying ==
    /\ pending > 0
    /\ pending' = pending
    /\ error' = ErrorMessage
    /\ loading' = TRUE
    /\ UNCHANGED << engine, mounted, searchTerm, sectorFilter,
                    signalFilter, sortConfig >>
    /\ UNCHANGED outsideScreener
    /\ Render(stocks)

\* fetchData without its finally block on the rejected path: loading stays
\* true after the request failed.
FetchRejectedStillLoading ==
    /\ pending > 0
    /\ pending' = pending - 1
    /\ error' = ErrorMessage
    /\ UNCHANGED << engine, mounted, loading, searchTerm, sectorFilter,
                    signalFilter, sortConfig >>
    /\ UNCHANGED outsideScreener
    /\ Render(stocks)

\* The catch block also calling setStocks([]): a failure empties the table.
FetchRejectedClearing ==
    /\ pending > 0
    /\ pending' = pending - 1
    /\ error' = ErrorMessage
    /\ loading' = FALSE
    /\ UNCHANGED << engine, mounted, searchTerm, sectorFilter,
                    signalFilter, sortConfig >>
    /\ UNCHANGED outsideScreener
    /\ Render(<< >>)

\* fetchData after its await, the request rejected.
FetchRejected ==
    /\ pending > 0
    /\ pending' = pending - 1
    /\ error' = ErrorMessage
    /\ loading' = FALSE
    /\ UNCHANGED << engine, mounted, searchTerm, sectorFilter,
                    signalFilter, sortConfig >>
    /\ UNCHANGED outsideScreener
    /\ Render(stocks)

\* onChange of the search box.
SetSearchTerm(value) ==
    /\ mounted /\ TableShown
    /\ searchTerm' = value
    /\ UNCHANGED << engine, mounted, pending, loading, error,
                    sectorFilter, signalFilter, sortConfig >>
    /\ UNCHANGED outsideScreener
    /\ Render(stocks)

\* The values of the <option>s of the sector <select>.
SectorOptions == { Empty } \cup { sectors[i] : i \in 1..Len(sectors) }

\* The sector choice as a toggle: the active value chosen again clears it.
SectorToggle(current, value) ==
    IF StrictEquals(current, value) THEN Empty ELSE value

\* onChange of the sector <select>: setSectorFilter(e.target.value).
SectorOnChange(current, value) == value

SetSectorFilter(value) ==
    /\ mounted /\ TableShown
    /\ sectorFilter' = SectorOnChange(sectorFilter, value)
    /\ UNCHANGED << engine, mounted, pending, loading, error,
                    searchTerm, signalFilter, sortConfig >>
    /\ UNCHANGED outsideScreener
    /\ Render(stocks)

\* The values of the <option>s of the signal <select>.
SignalOptions == { Empty } \cup SignalTypes

\* onChange of the signal <select>.
SetSignalFilter(value) ==
    /\ mounted /\ TableShown
    /\ signalFilter' = value
    /\ UNCHANGED << engine, mounted, pending, loading, error,
                    searchTerm, sectorFilter, sortConfig >>
    /\ UNCHANGED outsideScreener
    /\ Render(stocks)

\* The updater without the test of the key: the direction flips on any column.
NextSortConfigAnyKey(prev, key) ==
    [key |-> key,
     direction |-> IF prev.direction = "desc" THEN "asc" ELSE "desc"]

\* The updater without the test of the direction: a column chosen again
\* goes to ascending and stays there.
NextSortConfigStuckAsc(prev, key) ==
    [key |-> key, direction |-> IF prev.key = key THEN "asc" ELSE "desc"]

\* The updater handleSort passes to setSortConfig.
NextSortConfig(prev, key) ==
    [key |-> key,
     direction |-> IF prev.key = key /\ prev.direction = "desc"
                   THEN "asc" ELSE "desc"]

\* A header click that also empties the search box.
handleSortClearing(key) ==
    /\ mounted /\ TableShown
    /\ sortConfig' = NextSortConfig(sortConfig, key)
    /\ searchTerm' = Empty
    /\ UNCHANGED << engine, mounted, pending, loading, error,
                    sectorFilter, signalFilter >>
    /\ UNCHANGED outsideScreener
    /\ Render(stocks)

\* handleSort(key), the onClick of a sortable column header.
handleSort(key) ==
    /\ mounted /\ TableShown
    /\ sortConfig' = NextSortConfig(sortConfig, key)
    /\ UNCHANGED << engine, mounted, pending, loading, error,
                    searchTerm, sectorFilter, signalFilter >>
    /\ UNCHANGED outsideScreener
    /\ Render(stocks)

\* Clear Filters also putting the sort back to its initial configuration.
ClearFiltersResettingSort ==
    /\ mounted /\ TableShown
    /\ searchTerm' = Empty
    /\ sectorFilter' = Empty
    /\ signalFilter' = Empty
    /\ sortConfig' = [key |-> "momentum_score", direction |-> "desc"]
    /\ UNCHANGED << engine, mounted, pending, loading, error >>
    /\ UNCHANGED outsideScreener
    /\ Render(stocks)

\* The Clear Filters button.
ClearFilters ==
    /\ mounted /\ TableShown
    /\ searchTerm' = Empty
    /\ sectorFilter' = Empty
    /\ signalFilter' = Empty
    /\ UNCHANGED << engine, mounted, pending, loading, error, sortConfig >>
    /\ UNCHANGED outsideScreener
    /\ Render(stocks)

Next ==
    \/ Mount
    \/ Refresh
    \/ Retry
    \/ \E data \in Responses : FetchResolved(data)
    \/ FetchRejected
    \/ \E value \in TypedTerms : SetSearchTerm(value)
    \/ \E value \in SectorOptions : SetSectorFilter(value)
    \/ \E value \in SignalOptions : SetSignalFilter(value)
    \/ \E key \in SortKeys : handleSort(key)
    \/ ClearFilters

Spec == Init /\ [][Next]_vars

(***************************************************************************)
(* The derivation on its own: a fetch is awaited under any combination of  *)
(* criteria, and the server answers with any array of Collections.         *)
(***************************************************************************)
AllResponses ==
    { [hasStocks |-> TRUE, stocks |-> c] : c \in Collections }
        \cup { [hasStocks |-> FALSE, stocks |-> << >>] }

\* The sector criteria tried: none, and every sector of the pool.
SectorChoices ==
    { Empty } \cup { s.sector : s \in { r \in StockPool : Truthy(r.sector) } }

SortConfigs == [key : SortKeys, direction : Directions]

\* The Screener awaiting a response over an empty table, the criteria left
\* as the user set them before Refresh.
InitView ==
    /\ engine \in Engines
    /\ mounted = TRUE
    /\ pending = 1
    /\ stocks = << >>
    /\ loading = TRUE
    /\ error = Null
    /\ searchTerm \in SearchTerms
    /\ sectorFilter \in SectorChoices
    /\ signalFilter \in SignalOptions
    /\ sortConfig \in SortConfigs
    /\ sectors = Sectors(stocks)
    /\ filteredStocks = FilteredStocks(stocks, searchTerm, sectorFilter,
                                       signalFilter, sortConfig, engine)
    /\ crashed = FALSE
    /\ SignalsInit
    /\ DetailInit
    /\ GemsInit
    /\ ForecastInit
    \* No page reads the clock: App constructed on a Monday at midnight.
    /\ ClockInit(Date(1, 0, 0))

NextView == \E data \in AllResponses : FetchResolved(data)

SpecView == InitView /\ [][NextView]_vars

(***************************************************************************)
(* The fetch life cycle on its own, the server answering with any array of *)
(* Collections; the criteria stay as constructed.                          *)
(***************************************************************************)
NextFetch ==
    \/ Mount
    \/ Refresh
    \/ Retry
    \/ \E data \in AllResponses : FetchResolved(data)
    \/ FetchRejected

SpecFetch == Init /\ [][NextFetch]_vars

(***************************************************************************)
(* The fetch life cycle with collections following one another: the server *)
(* answers with any array of at most MaxFetched records of StockPool, or   *)
(* without the stocks field.                                               *)
(***************************************************************************)
SuccessiveResponses ==
    { [hasStocks |-> TRUE, stocks |-> c] : c \in ArraysOf(StockPool, MaxFetched) }
        \cup { [hasStocks |-> FALSE, stocks |-> << >>] }

NextReplace ==
    \/ Mount
    \/ Refresh
    \/ Retry
    \/ \E data \in SuccessiveResponses : FetchResolved(data)
    \/ FetchRejected

SpecReplace == Init /\ [][NextReplace]_vars

\* A request sent is settled by the server or by the 30 s timeout of the
\* client, and React runs the mount effect: both happen eventually.
Settle ==
    \/ \E data \in SuccessiveResponses : FetchResolved(data)
    \/ FetchRejected

SpecSettling == SpecReplace /\ WF_vars(Mount) /\ WF_vars(Settle)

(***************************************************************************)
(* The derivation over records whose symbol or name is a number: a fetch   *)
(* is awaited under any combination of criteria, the server answers with   *)
(* any array of MalformedPool, and the user types into the search box.     *)
(***************************************************************************)
\* symbol is the number 7.
StockN == Stock(Num(7), Str(<< "A", "b" >>), IT, Lit("Buy"),
                Num(10), Num(80), Num(2), Num(7))

\* name is the number 7; the symbol does not contain the term "b".
StockM == Stock(Str(<< "A" >>), Num(7), Pharma, Lit("Hold"),
                Num(5), Num(40), Num(0), Null)

\* name is the number 7; the symbol contains the term "b".
StockO == Stock(Str(<< "B" >>), Num(7), IT, Lit("Buy"),
                Num(5), Num(0), Num(0), Null)

MalformedPool == { StockN, StockM, StockO }

MalformedResponses ==
    { [hasStocks |-> TRUE, stocks |-> c] : c \in ArraysOf(MalformedPool, MaxFetched) }

NextMalformed ==
    \/ \E data \in MalformedResponses : FetchResolved(data)
    \/ \E value \in TypedTerms : SetSearchTerm(value)

SpecMalformed == InitView /\ [][NextMalformed]_vars

(***************************************************************************)
(* The Signals page                                                        *)
(***************************************************************************)
Signal(symbol, type) == [symbol |-> symbol, signal_type |-> type]

SignalPool ==
    { Signal(Str(<< "A" >>), Lit("Buy")),
      Signal(Str(<< "B" >>), Lit("Hold")),
      Signal(Str(<< "C" >>), Lit("Buy")) }

\* The results of getSignals: with a signals array of at most MaxSignals
\* entries, or without the field.
\* The date field of a result: absent, or the date the signals are of.
SignalDates == { Null, Lit("2024-01-15") }

\* The summary field of a result: absent, or a count for each signal type.
SignalSummaries ==
    { Null,
      [t |-> "obj", v |-> [type \in SignalTypes |-> 0]],
      [t |-> "obj", v |-> [type \in SignalTypes |->
                              IF type = Lit("Buy") THEN 1 ELSE 0]] }

\* The market_breadth field of a result: absent, or the four figures.
SignalBreadths == { Null, Lit("12, 8, 1.5, 40%") }

SignalArrays ==
    UNION { { a \in [1..n -> SignalPool] :
                \A i, j \in 1..n : i # j => a[i] # a[j] } : n \in 0..MaxSignals }

SignalResults ==
    { [loaded |-> TRUE, hasSignals |-> TRUE, signals |-> c,
       date |-> d, summary |-> s, market_breadth |-> b] :
        c \in SignalArrays, d \in SignalDates, s \in SignalSummaries,
        b \in SignalBreadths }
        \cup { [loaded |-> TRUE, hasSignals |-> FALSE, signals |-> << >>,
                date |-> d, summary |-> s, market_breadth |-> b] :
                 d \in SignalDates, s \in SignalSummaries, b \in SignalBreadths }

\* filter ? data?.signals?.filter(s => s.signal_type === filter) : data?.signals
\* (undefined when data is null or has no signals field).
FilteredSignalsOf(data, type) ==
    LET byType(s) == StrictEquals(s.signal_type, type)
    IN  IF ~(data.loaded /\ data.hasSignals)
        THEN [defined |-> FALSE, items |-> << >>]
        ELSE [defined |-> TRUE,
              items |-> IF Truthy(type)
                        THEN SelectSeq(data.signals, byType)
                        ELSE data.signals]

filteredSignals == FilteredSignalsOf(signalsData, filter)

\* new Date().toLocaleDateString('en-IN')
Today == Lit("today")

\* What Signals returns once the skeleton is gone, for data and filter: the
\* date line, the count of each summary card, the breadth figures, the
\* filter indicator, the signal cards and the "No signals found" card.
SignalsViewOf(data, type) ==
    LET shown == FilteredSignalsOf(data, type)
    IN  [date |-> IF Truthy(data.date) THEN data.date ELSE Today,
         counts |-> [t \in SignalTypes |->
                        IF IsNullish(data.summary) THEN 0 ELSE data.summary.v[t]],
         breadth |-> IF IsNullish(data.market_breadth)
                     THEN Lit("-, -, -, 0%") ELSE data.market_breadth,
         indicator |-> type,
         cards |-> shown.items,
         noSignals |-> ~shown.defined \/ shown.items = << >>]

\* fetchSignals up to its await.
fetchSignals ==
    /\ signalsLoading' = TRUE
    /\ signalsPending' = signalsPending + 1
    /\ UNCHANGED << signalsData, filter >>
    /\ UNCHANGED outsideSignals

\* useEffect(() => { fetchSignals() }, [])
MountSignals ==
    /\ ~signalsMounted
    /\ signalsMounted' = TRUE
    /\ fetchSignals

\* The Refresh button, rendered once the skeleton is gone.
RefreshSignals ==
    /\ signalsMounted /\ ~signalsLoading
    /\ UNCHANGED signalsMounted
    /\ fetchSignals

\* fetchSignals after its await, the request fulfilled with result.
SignalsResolved(result) ==
    /\ signalsPending > 0
    /\ signalsPending' = signalsPending - 1
    /\ signalsData' = result
    /\ signalsLoading' = FALSE
    /\ UNCHANGED << signalsMounted, filter >>
    /\ UNCHANGED outsideSignals

\* fetchSignals after its await, the request rejected: logged only.
SignalsRejected ==
    /\ signalsPending > 0
    /\ signalsPending' = signalsPending - 1
    /\ signalsLoading' = FALSE
    /\ UNCHANGED << signalsMounted, signalsData, filter >>
    /\ UNCHANGED outsideSignals

\* The card click as a plain set.
CardFilterSet(current, type) == type

\* The argument of setFilter in the onClick of a summary card.
CardFilter(current, type) == IF StrictEquals(current, type) THEN Empty ELSE type

\* onClick of the summary card of a signal type.
ClickCard(type) ==
    /\ signalsMounted /\ ~signalsLoading
    /\ filter' = CardFilter(filter, type)
    /\ UNCHANGED << signalsMounted, signalsPending, signalsData, signalsLoading >>
    /\ UNCHANGED outsideSignals

\* onClick of the cross of the filter indicator, rendered while a filter is set.
ClearSignalsFilter ==
    /\ signalsMounted /\ ~signalsLoading /\ Truthy(filter)
    /\ filter' = Empty
    /\ UNCHANGED << signalsMounted, signalsPending, signalsData, signalsLoading >>
    /\ UNCHANGED outsideSignals

NextSignals ==
    \/ MountSignals
    \/ RefreshSignals
    \/ \E result \in SignalResults : SignalsResolved(result)
    \/ SignalsRejected
    \/ \E type \in SignalTypes : ClickCard(type)
    \/ ClearSignalsFilter

SpecSignals == Init /\ [][NextSignals]_vars

\* What Signals returns: the skeleton while loading, the page otherwise.
SignalsView ==
    IF signalsLoading
    THEN [skeleton |-> TRUE, page |-> Null]
    ELSE [skeleton |-> FALSE, page |-> SignalsViewOf(signalsData, filter)]

(***************************************************************************)
(* The StockDetail page: the route /stock/:symbol keeps one StockDetail    *)
(* element while its parameter changes, and the effect on [symbol] sends a *)
(* request each time.  Requests settle in any order.                       *)
(***************************************************************************)
MaxInFlight == 2

DetailSymbols == { Str(<< "A" >>), Str(<< "B" >>), Str(<< "C" >>) }

\* The result of api.getStockDetail(symbol): the detail of that symbol.
DetailResult(symbol) == [symbol |-> symbol]

DetailErrorMessage == Lit("Failed to load stock data")

Remove(a, i) == SubSeq(a, 1, i - 1) \o SubSeq(a, i + 1, Len(a))

\* fetchStockData up to its await, symbol being the parameter the render
\* that defined it closed over.
fetchStockData(symbol) ==
    /\ detailLoading' = TRUE
    /\ detailError' = Null
    /\ detailRequests' = Append(detailRequests, symbol)
    /\ UNCHANGED detailData
    /\ UNCHANGED outsideDetail

\* The route is entered: the effect runs for the first time.
MountDetail(symbol) ==
    /\ ~detailMounted
    /\ detailMounted' = TRUE
    /\ detailSymbol' = symbol
    /\ fetchStockData(symbol)

\* The route parameter changes (a link, the address bar, back or forward):
\* the effect runs again.
ChangeSymbol(symbol) ==
    /\ detailMounted
    /\ ~StrictEquals(symbol, detailSymbol)
    /\ Len(detailRequests) < MaxInFlight
    /\ detailSymbol' = symbol
    /\ UNCHANGED detailMounted
    /\ fetchStockData(symbol)

\* A response applied only when it is of the current symbol.
DetailResolvedIfCurrent(i) ==
    /\ i \in 1..Len(detailRequests)
    /\ detailRequests' = Remove(detailRequests, i)
    /\ detailData' = IF StrictEquals(detailRequests[i], detailSymbol)
                     THEN DetailResult(detailRequests[i]) ELSE detailData
    /\ detailLoading' = FALSE
    /\ UNCHANGED << detailMounted, detailSymbol, detailError >>
    /\ UNCHANGED outsideDetail

\* fetchStockData after its await, request i fulfilled.
DetailResolved(i) ==
    /\ i \in 1..Len(detailRequests)
    /\ detailRequests' = Remove(detailRequests, i)
    /\ detailData' = DetailResult(detailRequests[i])
    /\ detailLoading' = FALSE
    /\ UNCHANGED << detailMounted, detailSymbol, detailError >>
    /\ UNCHANGED outsideDetail

\* fetchStockData after its await, request i rejected.
DetailRejected(i) ==
    /\ i \in 1..Len(detailRequests)
    /\ detailRequests' = Remove(detailRequests, i)
    /\ detailError' = DetailErrorMessage
    /\ detailLoading' = FALSE
    /\ UNCHANGED << detailMounted, detailSymbol, detailData >>
    /\ UNCHANGED outsideDetail

NextDetail ==
    \/ \E symbol \in DetailSymbols : MountDetail(symbol)
    \/ \E symbol \in DetailSymbols : ChangeSymbol(symbol)
    \/ \E i \in 1..MaxInFlight : DetailResolved(i)
    \/ \E i \in 1..MaxInFlight : DetailRejected(i)

SpecDetail == Init /\ [][NextDetail]_vars

(***************************************************************************)
(* The Gems page                                                           *)
(***************************************************************************)
MaxGems == 1

Gem(symbol) == [symbol |-> symbol]

GemPool == { Gem(Str(<< "A" >>)), Gem(Str(<< "B" >>)) }

\* The bodies of the responses of GET /api/gems: gems, summary and
\* sector_breakdown each present or not.
GemsResponses ==
    [gems : ArraysOf(GemPool, MaxGems),
     hasGems : BOOLEAN,
     summary : { NoSummary, [hasTotal |-> TRUE, total |-> 1] },
     hasSummary : BOOLEAN,
     hasBreakdown : BOOLEAN,
     breakdownKeys : { << IT >>, << IT, Pharma >> }]

\* err.message of a rejected request.
GemsErrorMessages == { Lit("Network Error"), Lit("Request failed") }

\* The values of the <option>s of the risk <select>.
RiskOptions == { Empty, Lit("low"), Lit("medium"), Lit("high") }

\* The values of the <option>s of the sector <select>.
GemsSectorOptions ==
    { Empty } \cup { gemsSectors[i] : i \in 1..Len(gemsSectors) }

\* The page with its filters is rendered: neither the spinner nor the
\* error paragraph is returned.
GemsShown == gemsMounted /\ ~gemsLoading /\ ~Truthy(gemsError)

\* The error paragraph is rendered.
GemsErrorShown == gemsMounted /\ ~gemsLoading /\ Truthy(gemsError)

\* fetchGems up to its await.
fetchGems ==
    /\ gemsLoading' = TRUE
    /\ gemsPending' = gemsPending + 1
    /\ UNCHANGED << gems, gemsSummary, gemsError, gemsSectors >>
    /\ UNCHANGED outsideGems

\* useEffect(() => { fetchGems() }, [riskFilter, sectorFilter]), first run.
MountGems ==
    /\ ~gemsMounted
    /\ gemsMounted' = TRUE
    /\ UNCHANGED << riskFilter, gemsSectorFilter >>
    /\ fetchGems

\* onChange of the risk <select>; the effect runs again on the new value.
SetRiskFilter(value) ==
    /\ GemsShown
    /\ ~StrictEquals(value, riskFilter)
    /\ riskFilter' = value
    /\ UNCHANGED << gemsMounted, gemsSectorFilter >>
    /\ fetchGems

\* onChange of the sector <select>; the effect runs again on the new value.
SetGemsSectorFilter(value) ==
    /\ GemsShown
    /\ ~StrictEquals(value, gemsSectorFilter)
    /\ gemsSectorFilter' = value
    /\ UNCHANGED << gemsMounted, riskFilter >>
    /\ fetchGems

\* fetchGems after its await, the request fulfilled with body.
GemsResolved(body) ==
    /\ gemsPending > 0
    /\ gemsPending' = gemsPending - 1
    /\ gems' = IF body.hasGems THEN body.gems ELSE << >>
    /\ gemsSummary' = IF body.hasSummary THEN body.summary ELSE NoSummary
    /\ gemsSectors' = IF body.hasBreakdown THEN body.breakdownKeys
                      ELSE gemsSectors
    /\ gemsLoading' = FALSE
    /\ UNCHANGED << gemsMounted, gemsError, riskFilter, gemsSectorFilter >>
    /\ UNCHANGED outsideGems

\* fetchGems after its await, the request rejected with message.
GemsRejected(message) ==
    /\ gemsPending > 0
    /\ gemsPending' = gemsPending - 1
    /\ gemsError' = message
    /\ gemsLoading' = FALSE
    /\ UNCHANGED << gemsMounted, gems, gemsSummary, gemsSectors, riskFilter,
                    gemsSectorFilter >>
    /\ UNCHANGED outsideGems

\* The user actions of Gems that send a request.
GemsFetchByUser ==
    \/ \E value \in RiskOptions : SetRiskFilter(value)
    \/ \E value \in GemsSectorOptions : SetGemsSectorFilter(value)

NextGems ==
    \/ MountGems
    \/ \E value \in RiskOptions : SetRiskFilter(value)
    \/ \E value \in GemsSectorOptions : SetGemsSectorFilter(value)
    \/ \E body \in GemsResponses : GemsResolved(body)
    \/ \E message \in GemsErrorMessages : GemsRejected(message)

SpecGems == Init /\ [][NextGems]_vars

(***************************************************************************)
(* The Forecast page: the route keeps one Forecast element while its       *)
(* parameter changes; the effect on [symbol, forecastDays] sends a request *)
(* when one of the two differs from the render before.                     *)
(***************************************************************************)
\* Most forecast requests in flight at once.
MaxForecasts == 2

ForecastSymbols == { Str(<< "A" >>), Str(<< "B" >>) }

\* The horizon buttons: [10, 20, 30, 60].map(days => <button ...>)
HorizonDays == { 10, 20, 30, 60 }

\* response.data of GET /api/forecast/{symbol}?days={days}.
ForecastResult(request) == [symbol |-> request.symbol, days |-> request.days]

\* The page with its horizon buttons is rendered: neither the spinner nor
\* the error paragraph (error || !data) is returned.
ForecastShown ==
    /\ forecastMounted /\ ~forecastLoading
    /\ ~Truthy(forecastError) /\ forecastData # Null

\* An effect without a dependency array: it runs after every render.
DepsChangedAlways(prev, next) == TRUE

\* React runs an effect again when a dependency differs from the render
\* before.
DepsChanged(prev, next) == prev # next

\* fetchForecast up to its await, for the symbol and days of the render
\* the effect ran in.
fetchForecast(symbol, days) ==
    /\ forecastLoading' = TRUE
    /\ forecastRequests' = Append(forecastRequests,
                                  [symbol |-> symbol, days |-> days])
    /\ UNCHANGED << forecastData, forecastError >>
    /\ UNCHANGED outsideForecast

\* The route is entered: the effect runs for the first time.
MountForecast(symbol) ==
    /\ ~forecastMounted
    /\ forecastMounted' = TRUE
    /\ forecastSymbol' = symbol
    /\ UNCHANGED forecastDays
    /\ fetchForecast(symbol, forecastDays)

\* The route parameter changes: the effect runs again.
ChangeForecastSymbol(symbol) ==
    /\ forecastMounted
    /\ ~StrictEquals(symbol, forecastSymbol)
    /\ Len(forecastRequests) < MaxForecasts
    /\ forecastSymbol' = symbol
    /\ UNCHANGED << forecastMounted, forecastDays >>
    /\ fetchForecast(symbol, forecastDays)

\* onClick of a horizon button: setForecastDays(days), and the effect when
\* its dependencies changed.
ClickHorizon(days) ==
    /\ ForecastShown
    /\ Len(forecastRequests) < MaxForecasts
    /\ forecastDays' = days
    /\ UNCHANGED << forecastMounted, forecastSymbol >>
    /\ IF DepsChanged(<< forecastSymbol, forecastDays >>,
                      << forecastSymbol, days >>)
       THEN fetchForecast(forecastSymbol, days)
       ELSE /\ UNCHANGED << forecastRequests, forecastData, forecastLoading,
                            forecastError >>
            /\ UNCHANGED outsideForecast

\* fetchForecast after its await, request i fulfilled.
ForecastResolved(i) ==
    /\ i \in 1..Len(forecastRequests)
    /\ forecastRequests' = Remove(forecastRequests, i)
    /\ forecastData' = ForecastResult(forecastRequests[i])
    /\ forecastLoading' = FALSE
    /\ UNCHANGED << forecastMounted, forecastSymbol, forecastDays,
                    forecastError >>
    /\ UNCHANGED outsideForecast

\* fetchForecast after its await, request i rejected: setError(err.message).
ForecastRejected(i) ==
    /\ i \in 1..Len(forecastRequests)
    /\ forecastRequests' = Remove(forecastRequests, i)
    /\ forecastError' = Lit("Network Error")
    /\ forecastLoading' = FALSE
    /\ UNCHANGED << forecastMounted, forecastSymbol, forecastDays,
                    forecastData >>
    /\ UNCHANGED outsideForecast

NextForecast ==
    \/ \E symbol \in ForecastSymbols : MountForecast(symbol)
    \/ \E symbol \in ForecastSymbols : ChangeForecastSymbol(symbol)
    \/ \E days \in HorizonDays : ClickHorizon(days)
    \/ \E i \in 1..MaxForecasts : ForecastResolved(i)
    \/ \E i \in 1..MaxForecasts : ForecastRejected(i)

SpecForecast == Init /\ [][NextForecast]_vars

(***************************************************************************)
(* The market badge of the header: App holds the Date of its construction, *)
(* replaces it by the Date of each tick of its timer, and renders          *)
(* isMarketOpen of it.                                                     *)
(***************************************************************************)
marketOpen == 9 * 60 + 15

marketClose == 15 * 60 + 30

\* The closing minute left out of the market hours.
isMarketOpenBeforeClose(date) ==
    LET totalMinutes == date.hours * 60 + date.minutes
    IN  IF date.day = 0 \/ date.day = 6 THEN FALSE
        ELSE totalMinutes >= marketOpen /\ totalMinutes < marketClose

isMarketOpen(date) ==
    LET totalMinutes == date.hours * 60 + date.minutes
    IN  IF date.day = 0 \/ date.day = 6 THEN FALSE
        ELSE totalMinutes >= marketOpen /\ totalMinutes <= marketClose

\* The dates tried: every weekday, the hours around the opening and the
\* closing and the ends of the day, the minutes around :15 and :30 and the
\* ends of the hour.
Dates ==
    { Date(day, hours, minutes) :
        day \in 0..6,
        hours \in { 0, 8, 9, 10, 12, 14, 15, 16, 23 },
        minutes \in { 0, 14, 15, 16, 29, 30, 31, 59 } }

\* The first render of App; the text of the badge is
\* isMarketOpen(currentTime) ? 'Market Open' : 'Market Closed'.
RenderApp ==
    /\ marketBadge = ""
    /\ marketBadge' = IF isMarketOpen(currentTime) THEN "Market Open"
                                                   ELSE "Market Closed"
    /\ UNCHANGED currentTime
    /\ UNCHANGED outsideClock

\* The timer fires: setCurrentTime(new Date()), and the header is rendered
\* again.
Tick(date) ==
    /\ marketBadge # ""
    /\ currentTime' = date
    /\ marketBadge' = IF isMarketOpen(date) THEN "Market Open"
                                            ELSE "Market Closed"
    /\ UNCHANGED outsideClock

\* App constructed at any of Dates.
InitMarket ==
    /\ ScreenerInit
    /\ SignalsInit
    /\ DetailInit
    /\ GemsInit
    /\ ForecastInit
    /\ \E date \in Dates : ClockInit(date)

NextMarket ==
    \/ RenderApp
    \/ \E date \in Dates : Tick(date)

SpecMarket == InitMarket /\ [][NextMarket]_vars

(***************************************************************************)
(* Properties                                                              *)
(***************************************************************************)
\* The elements of a sequence.
Range(a) == { a[i] : i \in 1..Len(a) }

\* How often r occurs in a.
Count(a, r) == Cardinality({ i \in 1..Len(a) : a[i] = r })

NoFilter == searchTerm = Empty /\ sectorFilter = Empty /\ signalFilter = Empty

\* A record satisfies every active predicate; an empty criterion is not active.
Passes(s) ==
    /\ searchTerm # Empty => SearchMatch(s, searchTerm)
    /\ sectorFilter # Empty => s.sector = sectorFilter
    /\ signalFilter # Empty => s.signal_type = signalFilter

\* C1: the view holds exactly the records of stocks that satisfy every
\* active predicate (search match, sector = sectorFilter, signal_type =
\* signalFilter), an empty criterion counting as true: no passing record is
\* dropped, no failing record is kept, none is repeated.
C1_ViewIsExactlyThePassingRecords ==
    /\ Range(filteredStocks) = { s \in Range(stocks) : Passes(s) }
    /\ \A s \in Range(stocks) : Count(filteredStocks, s) <= Count(stocks, s)

\* C1: all three criteria are active, one record passes and others fail.
C1_Witness ==
    /\ searchTerm # Empty /\ sectorFilter # Empty /\ signalFilter # Empty
    /\ Len(stocks) = MaxLen
    /\ Len(filteredStocks) = 1

\* C2: sectors is the set of the non-empty sector values of the current
\* stocks, each once, ascending by code units, with no null, undefined or
\* empty entry; it follows stocks through every fetch that replaces it.
C2_FacetsAreTheSortedDistinctSectors ==
    LET present == { s.sector : s \in Range(stocks) } \ { Null, Empty }
    IN  /\ Range(sectors) = present
        /\ Len(sectors) = Cardinality(present)
        /\ \A i \in 1..Len(sectors), j \in 1..Len(sectors) :
              i < j => SeqLess(sectors[i].v, sectors[j].v)

\* C2: a fetch delivered a Pharma record, a record with no sector and an IT
\* record, in that order; the facets are the two sectors, ascending.
C2_Witness ==
    /\ mounted /\ TableShown
    /\ stocks = << StockC, StockD, StockA >>
    /\ sectors = << IT, Pharma >>

\* The sort key of a record with a missing value read as 0.
KeyOrZero(s) == IF IsNullish(s[sortConfig.key]) THEN 0 ELSE s[sortConfig.key].v

\* Every record of stocks has a number or nothing under the sort key.
NumericKeys == \A s \in Range(stocks) : s[sortConfig.key].t \in {"num", "null"}

\* C3: with numeric or missing sort keys the view is ordered by the key in
\* the requested direction, a missing key counting as exactly 0: adjacent
\* records x, y have key(x) >= key(y) under 'desc', key(x) <= key(y) under 'asc'.
C3_ViewOrderedByKeyMissingAsZero ==
    NumericKeys =>
        \A i \in 1..(Len(filteredStocks) - 1) :
            LET x == KeyOrZero(filteredStocks[i])
                y == KeyOrZero(filteredStocks[i + 1])
            IN  IF sortConfig.direction = "desc" THEN x >= y ELSE x <= y

\* C3: the scenario: scores 80, 40 and missing, descending, give A, B, C.
C3_Witness ==
    /\ sortConfig = [key |-> "momentum_score", direction |-> "desc"]
    /\ NoFilter
    /\ stocks = << StockC, StockB, StockA >>
    /\ filteredStocks = << StockA, StockB, StockC >>

\* The direction handleSort is specified to give on selecting key.
ExpectedDirection(prev, key) ==
    IF key # prev.key THEN "desc"
    ELSE IF prev.direction = "desc" THEN "asc" ELSE "desc"

\* C4: sortConfig starts as {momentum_score, desc}; every handleSort(key)
\* step sets the key to the selected one, and the direction to 'desc' when
\* the key differs from the current one, to 'asc' when it is the current
\* key with direction 'desc', to 'desc' when it is the current key with
\* direction 'asc': one key selected repeatedly alternates desc, asc, desc.
C4_SortToggle ==
    /\ sortConfig = [key |-> "momentum_score", direction |-> "desc"]
    /\ [][\A key \in SortKeys :
             handleSort(key) =>
                /\ sortConfig'.key = key
                /\ sortConfig'.direction = ExpectedDirection(sortConfig, key)
                /\ NextSortConfig(sortConfig', key).direction
                     = IF sortConfig'.direction = "desc" THEN "asc" ELSE "desc"]_vars

\* C4: a column other than the initial one was selected twice in a row.
C4_Witness ==
    /\ mounted /\ TableShown
    /\ sortConfig = [key |-> "rsi", direction |-> "asc"]

\* The characters of a string with A-Z replaced by a-z, by table.
LowerOf(chars) ==
    [i \in 1..Len(chars) |->
        CASE chars[i] = "A" -> "a"
          [] chars[i] = "B" -> "b"
          [] chars[i] = "C" -> "c"
          [] chars[i] = "I" -> "i"
          [] chars[i] = "P" -> "p"
          [] chars[i] = "T" -> "t"
          [] OTHER -> chars[i]]

\* t occurs in s as a block of consecutive characters.
IsSubstring(t, s) ==
    \E before, after \in 0..Len(s) :
        /\ before + Len(t) + after = Len(s)
        /\ \A k \in 1..Len(t) : s[before + k] = t[k]

\* lowercase(searchTerm) is a substring of the lowercase of a present field.
FieldMatches(field) ==
    /\ field # Null
    /\ IsSubstring(LowerOf(searchTerm.v), LowerOf(field.v))

\* C5: with no other filter active, a record is in the view under a
\* non-empty searchTerm iff lowercase(searchTerm) is a substring of
\* lowercase(symbol) or of lowercase(name); a record with neither symbol
\* nor name is never in it; under an empty searchTerm every record is.
C5_SearchIsCaseInsensitiveSubstring ==
    (sectorFilter = Empty /\ signalFilter = Empty) =>
        \A s \in Range(stocks) :
            /\ searchTerm # Empty =>
                  (s \in Range(filteredStocks)
                      <=> (FieldMatches(s.symbol) \/ FieldMatches(s.name)))
            /\ (searchTerm # Empty /\ s.symbol = Null /\ s.name = Null) =>
                  s \notin Range(filteredStocks)
            /\ searchTerm = Empty => s \in Range(filteredStocks)

\* C5: the scenario: searchTerm "b" over the symbols A, B, C keeps only B.
C5_Witness ==
    /\ searchTerm = Str(<< "b" >>)
    /\ sectorFilter = Empty /\ signalFilter = Empty
    /\ stocks = << StockA, StockB, StockC >>
    /\ filteredStocks = << StockB >>

\* C6: with all three criteria empty the view is a permutation of stocks,
\* the same length and the same records as often, for every sort key and
\* direction (the keys malformed or not).
C6_UnfilteredViewIsPermutation ==
    NoFilter =>
        /\ Len(filteredStocks) = Len(stocks)
        /\ \A s \in StockPool : Count(filteredStocks, s) = Count(stocks, s)

\* C6: no criterion is set and the sort changed the order of a full array.
C6_Witness ==
    /\ NoFilter
    /\ Len(stocks) = MaxLen
    /\ filteredStocks # stocks

C8_CardToggle ==
    /\ [](filter \in { Empty } \cup SignalTypes)
    /\ [][\A type \in SignalTypes :
             ClickCard(type) =>
                /\ filter' = IF filter = type THEN Empty ELSE type
                /\ filter \in { Empty, type } => CardFilter(filter', type) = filter]_vars

\* C8: a card was clicked and the list shows only the signals of its type.
C8_Witness ==
    /\ signalsMounted /\ ~signalsLoading
    /\ filter = Lit("Buy")
    /\ filteredSignals.defined
    /\ Len(filteredSignals.items) > 0
    /\ Len(filteredSignals.items) < Len(signalsData.signals)

\* a sorts strictly before b in the direction of sortConfig.
StrictlyBefore(a, b) ==
    IF sortConfig.direction = "asc" THEN KeyOrZero(a) < KeyOrZero(b)
    ELSE KeyOrZero(a) > KeyOrZero(b)

\* C9 as claimed: the comparator never returns 0 and returns the positive
\* result for (a, b) whenever a is not strictly before b in the direction,
\* the two keys being equal included.
C9_GreaterWhenNotLess ==
    \A a, b \in Range(stocks) :
        /\ compare(a, b, sortConfig) # 0
        /\ (a[sortConfig.key].t \in {"num", "null"}
              /\ b[sortConfig.key].t \in {"num", "null"}
              /\ ~StrictlyBefore(a, b)) => compare(a, b, sortConfig) > 0

\* C9, amended: the comparator never returns 0; for numeric or missing keys
\* it returns the positive result for (a, b) exactly when a is strictly
\* after b in the direction, and the negative result whenever it is not,
\* the two keys being equal included.
C9_LessWhenNotGreater ==
    \A a, b \in Range(stocks) :
        /\ compare(a, b, sortConfig) \in {-1, 1}
        /\ (a[sortConfig.key].t \in {"num", "null"}
              /\ b[sortConfig.key].t \in {"num", "null"}) =>
                 (compare(a, b, sortConfig) = 1 <=> StrictlyBefore(b, a))

\* C9: two records with the same price are sorted by price.
C9_Witness ==
    /\ sortConfig.key = "close"
    /\ StockA \in Range(stocks) /\ StockB \in Range(stocks)
    /\ compare(StockA, StockB, sortConfig) = -1
    /\ compare(StockB, StockA, sortConfig) = -1

\* The sort key of a record with a missing or a string value read as 0.
KeyMalformedAsZero(s) ==
    IF s[sortConfig.key].t = "num" THEN s[sortConfig.key].v ELSE 0

\* No string under the sort key reads as a number.
NoNumericString ==
    \A s \in Range(stocks) :
        IsStr(s[sortConfig.key]) => ToNumber(s[sortConfig.key]) = NaN

\* C10 as claimed: a record whose sort key holds a string is ranked as if
\* the key were 0, like a record whose key is missing: the view is ordered
\* by the key read that way.
C10_MalformedKeyRanksAsZero ==
    NoNumericString =>
        \A i \in 1..(Len(filteredStocks) - 1) :
            LET x == KeyMalformedAsZero(filteredStocks[i])
                y == KeyMalformedAsZero(filteredStocks[i + 1])
            IN  IF sortConfig.direction = "desc" THEN x >= y ELSE x <= y

\* C11: computing the view and the facets never raises, whatever the
\* records hold: no render of the Screener throws, a numeric symbol or name
\* under an active search term included.
C11_DerivationNeverRaises == ~crashed

\* C12: the derivation is a function of (stocks, searchTerm, sectorFilter,
\* signalFilter, sortConfig) alone: in every state, whatever was computed
\* before, the view and the facets held are the ones a fresh computation on
\* the current inputs yields.
C12_DerivationHasNoHiddenState ==
    /\ sectors = Sectors(stocks)
    /\ filteredStocks = FilteredStocks(stocks, searchTerm, sectorFilter,
                                       signalFilter, sortConfig, engine)

\* The view was recomputed several times over two records tied on the sort
\* key: 'close' ascending is two header clicks away from the initial sort.
C12_Witness ==
    /\ mounted /\ TableShown
    /\ stocks = << StockA, StockB >>
    /\ sortConfig = [key |-> "close", direction |-> "asc"]
    /\ Len(filteredStocks) = 2

\* The effective sort keys (value ?? 0) of stks under key are pairwise distinct.
DistinctKeys(stks, key) ==
    \A i, j \in 1..Len(stks) :
        i # j => Coalesce(stks[i][key], Num(0)) # Coalesce(stks[j][key], Num(0))

\* C13: with pairwise distinct effective sort keys, a click on the header of
\* the current sort key followed by a second click on it gives back the
\* sortConfig and the view ordering held before the first click.
C13_SortRoundTrip ==
    [][\A key \in SortKeys :
          (handleSort(key) /\ key = sortConfig.key /\ DistinctKeys(stocks, key)) =>
              LET twice == NextSortConfig(sortConfig', key)
              IN  /\ twice = sortConfig
                  /\ FilteredStocks(stocks', searchTerm', sectorFilter',
                                    signalFilter', twice, engine')
                        = filteredStocks]_vars

\* The current key was clicked (the direction is ascending) over three
\* records of distinct keys that the sort reordered.
C13_Witness ==
    /\ mounted /\ TableShown
    /\ sortConfig.direction = "asc"
    /\ DistinctKeys(stocks, sortConfig.key)
    /\ Len(filteredStocks) >= 2
    /\ filteredStocks # stocks

\* C14: a fulfilled fetch replaces stocks wholesale by the stocks array of
\* the response, or by the empty array when the response has no stocks
\* field: no record of the collection held before survives unless the
\* response has it, and nothing is merged.
C14_FetchReplacesWholesale ==
    [][\A data \in SuccessiveResponses :
          FetchResolved(data) =>
              /\ stocks' = IF data.hasStocks THEN data.stocks ELSE << >>
              /\ Range(stocks') \subseteq Range(data.stocks)]_vars

\* A second response was applied: the table shows a collection of two
\* records while the error of an earlier, rejected fetch is still held.
C14_Witness ==
    /\ mounted /\ ~loading /\ pending = 0
    /\ Truthy(error)
    /\ stocks = << StockB, StockA >>

\* C15: the derivation never modifies stocks: a step changes stocks only by
\* applying a fulfilled fetch, and then to the array delivered, in its
\* order; search, filter, sort and clear steps leave it as it was.
C15_DerivationLeavesStocksAlone ==
    [][stocks' # stocks =>
          \E data \in Responses :
              FetchResolved(data) /\ stocks' = StocksOf(data)]_vars

\* After a sort on another column the view is reordered and stocks still is
\* in the order delivered.
C15_Witness ==
    /\ mounted /\ TableShown
    /\ sortConfig.key = "roc_5"
    /\ stocks = << StockB, StockA >>
    /\ filteredStocks = << StockA, StockB >>

\* C16: at most one fetch is in flight at any time: a request is in flight
\* only while loading is true, and Refresh and Retry are rendered only while
\* none is.
C16_AtMostOneFetchInFlight ==
    /\ pending <= 1
    /\ pending = 1 => loading
    /\ (TableShown \/ ErrorShown) => pending = 0

\* A Refresh is in flight over a table that was loaded before.
C16_Witness ==
    /\ mounted /\ pending = 1 /\ loading
    /\ stocks # << >>

\* C17: a response is applied whatever symbol it is of, and a change of the
\* route parameter leaves the requests in flight in flight: no request is
\* cancelled and no response is checked against the current symbol.
C17_StaleResponseOverwrites ==
    /\ [][\A i \in 1..MaxInFlight :
             DetailResolved(i) => detailData' = DetailResult(detailRequests[i])]_vars
    /\ [][\A symbol \in DetailSymbols :
             ChangeSymbol(symbol) =>
                 detailRequests' = Append(detailRequests, symbol)]_vars

\* Both requests settled, the one of the newer symbol first: the page shows
\* the detail of the previous symbol under the route of the newer one.
C17_Witness ==
    /\ detailMounted /\ ~detailLoading /\ detailRequests = << >>
    /\ ~Truthy(detailError)
    /\ detailData # Null
    /\ detailData.symbol # detailSymbol

\* C18: the Screener never retries by itself: every step that sends a
\* request is the mount effect or a click on Refresh or Retry and sends
\* exactly one, and a rejected fetch sends none, so the requests sent are one
\* for the mount plus one for each click.
C18_NoAutomaticRetry ==
    [][/\ pending' > pending =>
            /\ pending' = pending + 1
            /\ (~mounted /\ mounted') \/ Refresh \/ Retry
       /\ FetchRejected => pending' = pending - 1 /\ ~loading']_vars

\* A fetch failed and the error card is shown with nothing in flight.
C18_Witness ==
    /\ mounted /\ ErrorShown
    /\ pending = 0

\* C19: after a failed Gems fetch the failure state offers a retry: while
\* the error is displayed some user action of the page sends a new request.
C19_FailureOffersRetry == GemsErrorShown => ENABLED GemsFetchByUser

\* What Signals renders after a fulfilled fetch that returned no signals,
\* under any filter.
EmptySuccessViews ==
    { [skeleton |-> FALSE, page |-> SignalsViewOf(result, type)] :
        result \in { r \in SignalResults : r.signals = << >> },
        type \in { Empty } \cup SignalTypes }

\* C20: a failed Signals fetch is reported as a failure state: what Signals
\* renders after a rejected fetch differs from everything it renders after
\* a fulfilled fetch that returned no signals.
C20_FailureIsDistinguishable ==
    [][SignalsRejected => SignalsView' \notin EmptySuccessViews]_vars

\* C21: after a failed fetch, a Retry whose fetch is fulfilled leaves the
\* failure state: error is null again and the table is displayed.
C21_RetrySuccessLeavesFailure ==
    [][\A data \in SuccessiveResponses :
          (Truthy(error) /\ FetchResolved(data)) =>
              error' = Null /\ TableShown']_vars

\* C22: loading is true exactly while a fetch is in flight: a step that
\* sends a request leaves loading true, a step that settles one, fulfilled or
\* rejected, leaves it false, and, requests being settled eventually, loading
\* always becomes false again.
C22_LoadingWhileInFlight ==
    /\ [](mounted => (loading <=> pending > 0))
    /\ [][/\ pending' > pending => loading'
          /\ pending' < pending => ~loading']_vars
    /\ loading ~> ~loading

\* A fetch was fulfilled and a later one rejected: nothing is in flight and
\* loading is false.
C22_Witness ==
    /\ mounted /\ ~loading /\ pending = 0
    /\ Truthy(error)
    /\ stocks # << >>

\* C24: a rejected fetch changes error and loading only: stocks, the three
\* filters, sortConfig and so the facets and the view are as before it.
C24_FailureLeavesStocks ==
    [][FetchRejected =>
          /\ stocks' = stocks
          /\ searchTerm' = searchTerm
          /\ sectorFilter' = sectorFilter
          /\ signalFilter' = signalFilter
          /\ sortConfig' = sortConfig
          /\ sectors' = sectors
          /\ filteredStocks' = filteredStocks
          /\ error' = ErrorMessage
          /\ ~loading']_vars

\* A Refresh failed over a loaded table with a sector filter and a sort set
\* by the user.
C24_Witness ==
    /\ mounted /\ ErrorShown
    /\ stocks # << >>
    /\ sectorFilter # Empty
    /\ sortConfig.key # "momentum_score"

\* C25: in every state the active sectorFilter is empty or a member of the
\* facet list, after a Refresh that replaced stocks included.
C25_SectorFilterIsAFacet ==
    sectorFilter = Empty \/ sectorFilter \in Range(sectors)

\* C26: Clear Filters empties searchTerm, sectorFilter and signalFilter and
\* leaves sortConfig, stocks, loading and error as they were; the view after
\* it holds every record of stocks once, ordered by that sortConfig.
C26_ClearFilters ==
    [][ClearFilters =>
          /\ searchTerm' = Empty /\ sectorFilter' = Empty /\ signalFilter' = Empty
          /\ UNCHANGED << sortConfig, stocks, loading, error >>
          /\ Len(filteredStocks') = Len(stocks)
          /\ \A r \in Range(stocks) : Count(filteredStocks', r) = Count(stocks, r)
          /\ NumericKeys =>
                \A i \in 1..(Len(filteredStocks') - 1) :
                    ~StrictlyBefore(filteredStocks'[i + 1], filteredStocks'[i])]_vars

\* The table is shown with the three filters set, a sort the user chose and
\* a view shorter than stocks: the state Clear Filters acts on.
C26_Witness ==
    /\ mounted /\ TableShown
    /\ searchTerm # Empty /\ sectorFilter # Empty /\ signalFilter # Empty
    /\ sortConfig # [key |-> "momentum_score", direction |-> "desc"]
    /\ Len(filteredStocks) < Len(stocks)

\* C27: a header click changes sortConfig only and keeps the records of the
\* view, and each of the search, sector and signal inputs changes its own
\* criterion only: stocks, loading, error and the other criteria stay.
C27_CriteriaActionsFrame ==
    [][/\ \A key \in SortKeys :
             handleSort(key) =>
                /\ UNCHANGED << stocks, loading, error, searchTerm,
                                sectorFilter, signalFilter >>
                /\ Len(filteredStocks') = Len(filteredStocks)
                /\ Range(filteredStocks') = Range(filteredStocks)
       /\ \A value \in TypedTerms :
             SetSearchTerm(value) =>
                UNCHANGED << stocks, loading, error, sectorFilter,
                             signalFilter, sortConfig >>
       /\ \A value \in SectorOptions :
             SetSectorFilter(value) =>
                UNCHANGED << stocks, loading, error, searchTerm,
                             signalFilter, sortConfig >>
       /\ \A value \in SignalOptions :
             SetSignalFilter(value) =>
                UNCHANGED << stocks, loading, error, searchTerm,
                             sectorFilter, sortConfig >>]_vars

\* A search term and a sector filter are active under a sort on rsi over a
\* non-empty view.
C27_Witness ==
    /\ mounted /\ TableShown
    /\ searchTerm # Empty /\ sectorFilter # Empty
    /\ sortConfig.key = "rsi"
    /\ filteredStocks # << >>

\* The view the current inputs give under the other direction of the sort.
ViewUnderOtherDirection ==
    FilteredStocks(stocks, searchTerm, sectorFilter, signalFilter,
                   [key |-> sortConfig.key,
                    direction |-> IF sortConfig.direction = "desc"
                                  THEN "asc" ELSE "desc"],
                   engine)

\* C28: with pairwise distinct effective sort keys (value ?? 0) and the
\* filters fixed, the view under 'asc' is the view under 'desc' reversed.
C28_AscIsReverseOfDesc ==
    (NoNumericString /\ DistinctKeys(stocks, sortConfig.key)) =>
        ViewUnderOtherDirection = Reverse(filteredStocks)

\* C23: Forecast sends a request on mount and exactly when symbol or
\* forecastDays changes value, so a click on the horizon button already
\* selected sends none; forecastDays is 20 at first and always one of 10,
\* 20, 30, 60.
C23_FetchOnDependencyChange ==
    /\ forecastDays = 20
    /\ [](forecastDays \in { 10, 20, 30, 60 })
    /\ [][Len(forecastRequests') > Len(forecastRequests) <=>
             \/ ~forecastMounted /\ forecastMounted'
             \/ forecastSymbol' # forecastSymbol
             \/ forecastDays' # forecastDays]_vars
    /\ [][\A days \in { 10, 20, 30, 60 } :
             (ClickHorizon(days) /\ days = forecastDays) =>
                 forecastRequests' = forecastRequests]_vars

\* The 60 day button was clicked and its forecast has arrived.
C23_Witness ==
    /\ ForecastShown
    /\ forecastDays = 60
    /\ forecastRequests = << >>
    /\ forecastData.days = 60

\* C29: isMarketOpen(date) is true exactly when the weekday of date is
\* Monday to Friday and its minute of the day (hours * 60 + minutes) lies in
\* [555, 930], both ends included; it is false all Saturday and Sunday.
C29_MarketHours ==
    marketBadge # "" =>
        /\ marketBadge = "Market Open" <=>
              /\ currentTime.day \in 1..5
              /\ currentTime.hours * 60 + currentTime.minutes >= 555
              /\ currentTime.hours * 60 + currentTime.minutes <= 930
        /\ currentTime.day \in { 0, 6 } => marketBadge = "Market Closed"

\* The badge shows the market open on a Friday at 15:30, the last minute.
C29_Witness ==
    /\ currentTime = Date(5, 15, 30)
    /\ marketBadge = "Market Open"

====
